---- MODULE Spec2Model ----
(***************************************************************************)
(* A model of libs/streamlink/logger.py: the level registry, the logger    *)
(* extension (iter and the custom level methods), the record factory, the  *)
(* formatter, the stream handler, the warning bridge and basicConfig.      *)
(* Python's None is the string "None" (the handler NoHandler for a         *)
(* handler-valued slot, the level 0 = logging.NOTSET for a logger level).  *)
(***************************************************************************)
EXTENDS Integers, Sequences, FiniteSets, TLC

\* ------------------------------------------------------------ bounds
MaxCalls == 3
MaxItems == 2
MaxNameLen == 4
MaxPrefixes == 2
MaxPending == 2
MaxWarnCalls == 5

None == "None"

\* ------------------------------------------------------------ levels
\* logging.NOTSET, the level of a logger without a level of its own
NOTSET == 0
CRITICAL == 50
ERROR == 40
WARNING == 30
INFO == 20
DEBUG == 10
\* sys.maxsize of the 32-bit (arm7) build: 2^31 - 1
NONE_wrong == NOTSET
NONE == 2147483647
TRACE == 5
ALL == 2

\* The dict _levelToNames as its items in insertion order.
levelToNamesItems ==
    << <<NONE, "none">>, <<CRITICAL, "critical">>, <<ERROR, "error">>,
       <<WARNING, "warning">>, <<INFO, "info">>, <<DEBUG, "debug">>,
       <<TRACE, "trace">>, <<ALL, "all">> >>

custom_levels == {TRACE, ALL}

\* str.upper() on the level names
Upper(n) ==
    CASE n = "none" -> "NONE"
      [] n = "critical" -> "CRITICAL"
      [] n = "error" -> "ERROR"
      [] n = "warning" -> "WARNING"
      [] n = "info" -> "INFO"
      [] n = "debug" -> "DEBUG"
      [] n = "trace" -> "TRACE"
      [] n = "all" -> "ALL"
      [] OTHER -> n

\* The logging module's registry before this module is imported.
StdLevelToName ==
    (50 :> "CRITICAL") @@ (40 :> "ERROR") @@ (30 :> "WARNING") @@
    (20 :> "INFO") @@ (10 :> "DEBUG") @@ (0 :> "NOTSET")

StdNameToLevel ==
    ("CRITICAL" :> 50) @@ ("FATAL" :> 50) @@ ("ERROR" :> 40) @@ ("WARN" :> 30) @@
    ("WARNING" :> 30) @@ ("INFO" :> 20) @@ ("DEBUG" :> 10) @@ ("NOTSET" :> 0)

\* logging.addLevelName(level, levelName) on the registry reg = [l2n, n2l]
addLevelName(reg, level, levelName) ==
    [l2n |-> (level :> levelName) @@ reg.l2n,
     n2l |-> (levelName :> level) @@ reg.n2l]

\* The registration loop over _levelToNames.items(), from item i on.
RECURSIVE RegisterFrom(_, _)
RegisterFrom(reg, i) ==
    IF i > Len(levelToNamesItems) THEN reg
    ELSE LET level == levelToNamesItems[i][1]
             name == levelToNamesItems[i][2]
         IN RegisterFrom(addLevelName(addLevelName(reg, level, Upper(name)), level, name),
                         i + 1)

RegisteredLevels == RegisterFrom([l2n |-> StdLevelToName, n2l |-> StdNameToLevel], 1)

\* levels = list(_levelToNames.values())
LevelsList_sorted == <<"all", "trace", "debug", "info", "warning", "error", "critical", "none">>

LevelsList == [i \in 1..Len(levelToNamesItems) |-> levelToNamesItems[i][2]]

\* ------------------------------------------------------------ state
VARIABLES
    levelToName,        \* logging._levelToName
    nameToLevel,        \* logging._nameToLevel
    levels,             \* the module's list levels
    showwarning,        \* warnings.showwarning, the active warning hook
    showwarning_default,\* _showwarning_default, the remembered hook
    origHook,           \* the hook that was active when the module was imported
    callLog,            \* the capturewarnings calls made so far, in order
    loggerLevel,        \* Logger.level of each logger (NOTSET: none of its own)
    lastEmit,           \* the records the latest operation handed to Logger.handle
    messages,           \* iter: the items of the input sequence
    msgKind,            \* iter: "iterator" (one-shot) or "list" (re-iterable)
    genLogger,          \* iter: the logger the batch runs on (self)
    genLevel,           \* iter: the level argument
    genPc,              \* iter: where the generator is suspended
    cursor,             \* iter: items the iterator in use has handed out
    genEnabled,         \* iter: what the isEnabledFor check of line 32 found
    genLogged,          \* iter: the messages the batch passed to _log, in order
    yielded,            \* iter: the items the generator has yielded, in order
    recArgs,            \* the arguments makeRecord passes to the record factory
    record,             \* the record the factory returned
    recPc,              \* "call", then "made", then "formatted"
    remove_base,        \* StringFormatter._remove_base of the formatter in use
    nameIn,             \* record.name as format received it
    rendered,           \* what format returned: the parts of the rendered line
    hStream,            \* StreamHandler.stream
    streamErrors,       \* the error handling mode (errors) of each stream
    pending,            \* the writes each stream holds unflushed
    flushErr,           \* what the stream's flush raised in the latest flush
    flushOut,           \* what the latest StreamHandler.flush let out to its caller
    lock,               \* _config_lock: the thread holding it, or None
    cfgPc,              \* basicConfig: where each thread stands
    cfgArgs,            \* basicConfig: the arguments of each thread's call
    handler,            \* basicConfig: the local variable handler of each call
    exc,                \* basicConfig: the exception in flight in each call
    rootHandlers,       \* root.handlers
    pre,                \* root's handlers, level and hooks when the lock was taken
    nCalls,             \* the basicConfig calls made so far
    nRaised,            \* the basicConfig calls that raised so far
    warnArgs,           \* the arguments of the latest warning
    hookCalls,          \* the calls the latest warning made on a warning hook
    logCalls,           \* the root.log calls the latest warning made
    warnRecords,        \* the records the latest warning handed to Logger.handle
    extHook,            \* the hook external code installed most recently
    extHookOff,         \* the same, among those installed while capture was off
    version_info,       \* sys.version_info of the build, <<major, minor>>
    traceCall,          \* the latest call of a method made by _logmethodfactory
    traceRecords,       \* the records that call handed to Logger.handle
    cwPc,               \* capturewarnings(True): where each thread stands in it
    cwTmp               \* capturewarnings(True): the hook each thread has read

regVars == <<levelToName, nameToLevel, levels>>
warnVars == <<showwarning, showwarning_default, origHook, callLog>>
genVars == <<messages, msgKind, genLogger, genLevel, genPc, cursor, genEnabled,
             genLogged, yielded>>
logVars == <<loggerLevel, lastEmit, genVars>>
recVars == <<recArgs, record, recPc, remove_base, nameIn, rendered>>
hdlVars == <<hStream, streamErrors, pending, flushErr, flushOut>>
cfgVars == <<lock, cfgPc, cfgArgs, handler, exc, rootHandlers, pre, nCalls, nRaised>>
bridgeVars == <<warnArgs, hookCalls, logCalls, warnRecords, extHook, extHookOff>>
traceVars == <<version_info, traceCall, traceRecords>>
raceVars == <<cwPc, cwTmp>>
vars == <<regVars, warnVars, logVars, recVars, hdlVars, cfgVars, bridgeVars,
          traceVars, raceVars>>

\* What the operations of one component leave alone.
exceptWarn == <<regVars, logVars, recVars, hdlVars, cfgVars, bridgeVars,
                 traceVars, raceVars>>
exceptLog == <<regVars, warnVars, recVars, hdlVars, cfgVars, bridgeVars,
                traceVars, raceVars>>
exceptRec == <<regVars, warnVars, logVars, hdlVars, cfgVars, bridgeVars,
                traceVars, raceVars>>
exceptHdl == <<regVars, warnVars, logVars, recVars, cfgVars, bridgeVars,
                traceVars, raceVars>>
\* The steps of a capturewarnings call move the thread making it as well.
exceptRace == <<regVars, logVars, recVars, hdlVars, cfgVars, bridgeVars, traceVars>>
\* basicConfig sets root's level and the warning hooks as well.
exceptCfg == <<regVars, recVars, hdlVars, genVars, lastEmit, origHook, callLog,
               bridgeVars, traceVars, raceVars>>

\* ------------------------------------------------------------ module initialisation
\* The builds: the Python versions on either side of the test of line 72.
PyVersions == {<<3, 10>>, <<3, 11>>}

\* The specifications that never look at the version run on one build.
InitOneBuild == version_info = <<3, 11>>

InitRegistry ==
    /\ levelToName = RegisteredLevels.l2n
    /\ nameToLevel = RegisteredLevels.n2l
    /\ levels = LevelsList

\* ------------------------------------------------------------ loggers
\* root = logging.getLogger("streamlink") and one descendant of it.
Root == "streamlink"
Child == "streamlink.plugin"
Loggers == {Root, Child}

\* The seven levels a message can have.
LogLevels == {ALL, TRACE, DEBUG, INFO, WARNING, ERROR, CRITICAL}
StandardLevels == {DEBUG, INFO, WARNING, ERROR, CRITICAL}

\* Logger.getEffectiveLevel: the first level that is not NOTSET on the way up;
\* above root is logging.root, whose level is WARNING.
getEffectiveLevel(lv, lg) ==
    IF lv[lg] # NOTSET THEN lv[lg]
    ELSE IF lg = Child /\ lv[Root] # NOTSET THEN lv[Root]
    ELSE WARNING

isEnabledFor(lv, lg, level) == level >= getEffectiveLevel(lv, lg)

\* Logger._log: builds the record and hands it to Logger.handle, whatever the level.
LogRecordOf(lg, level, msg) == [name |-> lg, levelno |-> level, msg |-> msg]

InitLoggers ==
    /\ loggerLevel = [lg \in Loggers |-> IF lg = Root THEN WARNING ELSE NOTSET]
    /\ lastEmit = <<>>

\* No batch is under way (the specifications that are not about iter).
InitNoBatch ==
    /\ messages = <<>>
    /\ msgKind = "list"
    /\ genLogger = Root
    /\ genLevel = DEBUG
    /\ genPc = "done"
    /\ cursor = 0
    /\ genEnabled = None
    /\ genLogged = <<>>
    /\ yielded = <<>>

\* ------------------------------------------------------------ records
\* The message of a log call: a str, or a warnings.WarningMessage.
StrMessage(text) == [type |-> "str", text |-> text]
WarningMessage(message, category, filename, lineno) ==
    [type |-> "WarningMessage", message |-> message, category |-> category,
     filename |-> filename, lineno |-> lineno]

NoRecord == [kind |-> None]

\* No record is under way (the specifications that are not about records).
InitNoRecord ==
    /\ recArgs = [name |-> <<>>, level |-> DEBUG, fn |-> None, lno |-> 0,
                  msg |-> StrMessage("hello"), args |-> <<>>, exc_info |-> None,
                  func |-> None, sinfo |-> None]
    /\ record = NoRecord
    /\ recPc = "formatted"
    /\ remove_base = <<>>
    /\ nameIn = <<>>
    /\ rendered = <<>>

\* ------------------------------------------------------------ streams
Streams == {"stderr", "stdout"}

\* A StreamHandler on stream: __init__ sets the stream and reconfigures it.
InitHandlerOn(stream) ==
    /\ hStream = stream
    /\ streamErrors = [x \in Streams |->
                          IF x = stream THEN "backslashreplace" ELSE "strict"]
    /\ pending = [x \in Streams |-> 0]
    /\ flushErr = "unset"
    /\ flushOut = None

\* ------------------------------------------------------------ configuration state
Threads == {"t1", "t2"}

NoHandler == [id |-> 0, kind |-> None, target |-> None, formatter |-> None]
NoArgs == [filename |-> None, stream |-> None, format |-> None, level |-> None,
           capture_warnings |-> FALSE]
NoSnapshot == [handlers |-> <<>>, level |-> NOTSET, active |-> None, remembered |-> None]

\* No basicConfig call has been made: root has no handler, the lock is free.
InitConfigState ==
    /\ lock = None
    /\ cfgPc = [t \in Threads |-> "idle"]
    /\ cfgArgs = [t \in Threads |-> NoArgs]
    /\ handler = [t \in Threads |-> NoHandler]
    /\ exc = [t \in Threads |-> None]
    /\ rootHandlers = <<>>
    /\ pre = NoSnapshot
    /\ nCalls = 0
    /\ nRaised = 0

\* ------------------------------------------------------------ warning bridge
\* The hooks external code may have installed, and the bridge's own _showwarning.
ExternalHooks == {"showwarning_std", "hook_a", "hook_b"}
BridgeHook == "_showwarning"

\* No warning has been reported yet.
NoWarning == [message |-> None, category |-> None, filename |-> None, lineno |-> 0,
              file |-> None, line |-> None]

\* No method made by _logmethodfactory has been called yet.
NoTraceCall == [logger |-> None, level |-> NOTSET, kws |-> <<>>, stack |-> <<>>]

InitWarnWith(H) ==
    /\ showwarning = H
    /\ showwarning_default = None
    /\ origHook = H
    /\ callLog = <<>>
    /\ warnArgs = NoWarning
    /\ hookCalls = <<>>
    /\ logCalls = <<>>
    /\ warnRecords = <<>>
    /\ extHook = H
    /\ extHookOff = H
    /\ traceCall = NoTraceCall
    /\ traceRecords = <<>>
    /\ cwPc = [t \in Threads |-> "idle"]
    /\ cwTmp = [t \in Threads |-> None]

\* capturewarnings(capture) on the pair [active, remembered]
capturewarnings_noguard(w, capture) ==
    IF capture
    THEN [active |-> BridgeHook, remembered |-> w.active]
    ELSE [active |-> w.remembered, remembered |-> None]

\* capturewarnings as it would be if a disable left in place a hook that is not
\* the bridge's own.
capturewarnings_keep_external(w, capture) ==
    IF capture
    THEN IF w.remembered = None
         THEN [active |-> BridgeHook, remembered |-> w.active]
         ELSE w
    ELSE IF w.remembered # None
         THEN [active |-> IF w.active = BridgeHook THEN w.remembered ELSE w.active,
               remembered |-> None]
         ELSE w

capturewarnings(w, capture) ==
    IF capture
    THEN IF w.remembered = None
         THEN [active |-> BridgeHook, remembered |-> w.active]
         ELSE w
    ELSE IF w.remembered # None
         THEN [active |-> w.remembered, remembered |-> None]
         ELSE w

WarnState == [active |-> showwarning, remembered |-> showwarning_default]

CaptureWarnings(capture) ==
    /\ Len(callLog) < MaxWarnCalls
    /\ LET w == capturewarnings(WarnState, capture)
       IN /\ showwarning' = w.active
          /\ showwarning_default' = w.remembered
    /\ callLog' = Append(callLog, capture)
    /\ UNCHANGED <<origHook, exceptWarn>>

NextWarn == \E capture \in BOOLEAN : CaptureWarnings(capture)

InitWarn ==
    /\ InitOneBuild
    /\ InitRegistry /\ InitLoggers /\ InitNoBatch /\ InitNoRecord
    /\ InitHandlerOn("stderr") /\ InitConfigState
    /\ \E H \in ExternalHooks : InitWarnWith(H)

SpecWarn == InitWarn /\ [][NextWarn]_vars

\* Capture is on after the calls so far: the last call made was an enable.
CaptureOn == callLog # <<>> /\ callLog[Len(callLog)]

\* C3: in a sequence of capturewarnings calls that starts disabled with hook H
\* active, an enable while enabled and a disable while disabled change neither the
\* active nor the remembered hook, and a disable after n >= 1 enables makes H the
\* active hook again and clears the remembered hook.
C3_CaptureIdempotent ==
    [][callLog' # callLog =>
        LET capture == callLog'[Len(callLog')]
        IN /\ (CaptureOn /\ capture) => UNCHANGED <<showwarning, showwarning_default>>
           /\ (~CaptureOn /\ ~capture) => UNCHANGED <<showwarning, showwarning_default>>
           /\ (CaptureOn /\ ~capture) =>
                  (showwarning' = origHook /\ showwarning_default' = None)]_vars

\* Two enables, one disable and a further disable have been made, and H is active.
C3_Witness ==
    /\ callLog = <<TRUE, TRUE, FALSE, FALSE>>
    /\ showwarning = origHook
    /\ showwarning_default = None

\* ------------------------------------------------------------ logging operations
SeqsUpTo(S, n) == UNION {[1..k -> S] : k \in 0..n}

Items == {"a", "b"}
\* The level names setLevel is called with: those of the list levels, and NOTSET
\* to take a descendant's own level away again.
RootLevelArgs == {levels[i] : i \in 1..Len(levels)}
ChildLevelArgs == {"NOTSET", "debug"}
GenLevels == {DEBUG, WARNING}

\* Logger.setLevel(level) with a level name: logging._checkLevel looks it up.
SetLevel(lg, n) ==
    /\ n \in DOMAIN nameToLevel
    /\ n \in (IF lg = Root THEN RootLevelArgs ELSE ChildLevelArgs)
    /\ loggerLevel' = [loggerLevel EXCEPT ![lg] = nameToLevel[n]]
    /\ lastEmit' = <<>>
    /\ UNCHANGED <<genVars, exceptLog>>

\* The method _logmethodfactory(level, name) returns, and the standard severity
\* methods of the base class, which have its shape: the records handed on.
method(lv, lg, level, message) ==
    IF isEnabledFor(lv, lg, level) THEN <<LogRecordOf(lg, level, message)>> ELSE <<>>

\* logger.debug(...) .. logger.critical(...)
StandardMethod(lg, level) ==
    /\ level \in StandardLevels
    /\ lastEmit' = method(loggerLevel, lg, level, "m")
    /\ UNCHANGED <<loggerLevel, genVars, exceptLog>>

\* logger.trace(...), logger.all(...): the methods installed for _custom_levels
CustomMethod(lg, level) ==
    /\ level \in custom_levels
    /\ lastEmit' = method(loggerLevel, lg, level, "m")
    /\ UNCHANGED <<loggerLevel, genVars, exceptLog>>

\* iter(messages) as the for statement and yield from call it: a list gives a new
\* iterator at its start, an iterator gives itself, wherever it stands.
IterOf(kind, cur) == IF kind = "list" THEN 0 ELSE cur

\* iter as it would be if the for loop logged the whole batch before its first
\* yield instead of one item per resumption.
StreamlinkLogger_iter_eager(pc, cur, en, kind, msgs, lg, level) ==
    LET n == Len(msgs)
        inYieldFrom == (pc = "created" /\ en = "no") \/ pc = "yieldfrom"
        from == IF pc = "created" THEN IterOf(kind, cur) ELSE cur
        loopAt == IF pc \in {"created", "yieldfrom"} THEN IterOf(kind, from) ELSE cur
    IN IF inYieldFrom /\ from < n
       THEN [pc |-> "yieldfrom", cursor |-> from + 1,
             logged |-> <<>>, out |-> <<msgs[from + 1]>>]
       ELSE IF loopAt < n
       THEN [pc |-> "loop", cursor |-> loopAt + 1,
             logged |-> IF pc = "loop" THEN <<>> ELSE SubSeq(msgs, loopAt + 1, n),
             out |-> <<msgs[loopAt + 1]>>]
       ELSE [pc |-> "done", cursor |-> loopAt, logged |-> <<>>, out |-> <<>>]

\* StreamlinkLogger.iter, resumed by next() at pc with the iterator in use at cur:
\* it runs to its next yield or to its end. en is what line 32 found ("yes"/"no").
StreamlinkLogger_iter(pc, cur, en, kind, msgs, lg, level) ==
    LET n == Len(msgs)
        inYieldFrom == (pc = "created" /\ en = "no") \/ pc = "yieldfrom"
        from == IF pc = "created" THEN IterOf(kind, cur) ELSE cur
        loopAt == IF pc \in {"created", "yieldfrom"} THEN IterOf(kind, from) ELSE cur
    IN IF inYieldFrom /\ from < n
       THEN [pc |-> "yieldfrom", cursor |-> from + 1,
             logged |-> <<>>, out |-> <<msgs[from + 1]>>]
       ELSE IF loopAt < n
       THEN [pc |-> "loop", cursor |-> loopAt + 1,
             logged |-> <<msgs[loopAt + 1]>>, out |-> <<msgs[loopAt + 1]>>]
       ELSE [pc |-> "done", cursor |-> loopAt, logged |-> <<>>, out |-> <<>>]

\* next() on the generator iter returned.
GenNext ==
    /\ genPc # "done"
    /\ LET en == IF genPc = "created"
                 THEN (IF isEnabledFor(loggerLevel, genLogger, genLevel)
                       THEN "yes" ELSE "no")
                 ELSE genEnabled
           r == StreamlinkLogger_iter(genPc, cursor, en, msgKind, messages,
                                      genLogger, genLevel)
       IN /\ genEnabled' = en
          /\ genPc' = r.pc
          /\ cursor' = r.cursor
          /\ genLogged' = genLogged \o r.logged
          /\ yielded' = yielded \o r.out
          /\ lastEmit' = [i \in 1..Len(r.logged) |->
                             LogRecordOf(genLogger, genLevel, r.logged[i])]
    /\ UNCHANGED <<messages, msgKind, genLogger, genLevel, loggerLevel, exceptLog>>

InitBatch ==
    /\ messages \in SeqsUpTo(Items, MaxItems)
    /\ msgKind \in {"iterator", "list"}
    /\ genLogger \in Loggers
    /\ genLevel \in GenLevels
    /\ genPc = "created"
    /\ cursor = 0
    /\ genEnabled = None
    /\ genLogged = <<>>
    /\ yielded = <<>>

InitLog ==
    /\ InitOneBuild
    /\ InitRegistry /\ InitLoggers /\ InitBatch /\ InitNoRecord
    /\ InitHandlerOn("stderr") /\ InitConfigState
    /\ InitWarnWith("showwarning_std")

NextLog ==
    \/ \E lg \in Loggers, n \in RootLevelArgs \cup ChildLevelArgs : SetLevel(lg, n)
    \/ \E lg \in Loggers, level \in StandardLevels : StandardMethod(lg, level)
    \/ \E lg \in Loggers, level \in custom_levels : CustomMethod(lg, level)
    \/ GenNext

SpecLog == InitLog /\ [][NextLog]_vars

\* A logger that takes its level from root: root itself, or a descendant with no
\* level of its own.
TakesRootLevel(lg) == lg = Root \/ loggerLevel[lg] = NOTSET

\* The batch logs its items; the method calls of the model log the message "m".
FromBatch(r) == r.msg \in Items

\* C2: a batch whose isEnabledFor check found the logger not enabled and that has
\* been consumed to its end has yielded exactly the input items, each once and in
\* order, and has passed nothing to _log.
C2_PassThrough ==
    (genPc = "done" /\ genEnabled = "no") => (yielded = messages /\ genLogged = <<>>)

\* C5: while the level of root is "none", the latest operation has handed no
\* record to Logger.handle for root or a descendant without a level of its own (a
\* batch whose one check found the logger enabled before the level was raised is
\* left aside: its check is made only once).
C5_NoneSuppressesAll ==
    loggerLevel[Root] = NONE =>
        \A i \in 1..Len(lastEmit) :
            (TakesRootLevel(lastEmit[i].name) /\ lastEmit[i].levelno \in LogLevels)
                => (FromBatch(lastEmit[i]) /\ genEnabled = "yes")

Ascending == <<"all", "trace", "debug", "info", "warning", "error", "critical", "none">>

\* C4: the eight registered levels are strictly ordered by value, all < trace <
\* debug < info < warning < error < critical < none, each value has one lowercase
\* name, none is above every other level, and the registry is the one module
\* initialisation built.
C4_LevelOrder ==
    /\ levelToName = RegisteredLevels.l2n
    /\ nameToLevel = RegisteredLevels.n2l
    /\ \A i \in 1..8 : Ascending[i] \in DOMAIN nameToLevel
    /\ \A i, j \in 1..8 : i < j => nameToLevel[Ascending[i]] < nameToLevel[Ascending[j]]
    /\ \A i \in 1..7 : nameToLevel[Ascending[i]] < nameToLevel["none"]
    /\ \A i \in 1..8 : /\ levelToName[nameToLevel[Ascending[i]]] = Ascending[i]
                       /\ nameToLevel[Upper(Ascending[i])] = nameToLevel[Ascending[i]]

\* Levels have been set by name and a batch has run to its end.
C4_Witness ==
    /\ loggerLevel[Root] = nameToLevel["none"]
    /\ loggerLevel[Child] = nameToLevel["debug"]
    /\ genPc = "done"
    /\ yielded # <<>>

\* C9 as stated: levels lists the eight names in ascending order, none last.
C9_AscendingNoneLast ==
    /\ Len(levels) = 8
    /\ \A i, j \in 1..Len(levels) : i < j => nameToLevel[levels[i]] < nameToLevel[levels[j]]
    /\ levels[Len(levels)] = "none"

\* C9 amended: levels lists the eight lowercase names exactly once each in
\* descending order of value: none first, then critical, error, warning, info,
\* debug, trace, and all last.
C9_DescendingNoneFirst ==
    /\ Len(levels) = 8
    /\ {levels[i] : i \in 1..Len(levels)} = {Ascending[i] : i \in 1..8}
    /\ \A i, j \in 1..Len(levels) : i < j => nameToLevel[levels[i]] > nameToLevel[levels[j]]
    /\ levels[1] = "none"
    /\ levels[Len(levels)] = "all"

\* The first and the last name of the list have been used to set levels.
C9_Witness ==
    /\ loggerLevel[Root] = nameToLevel[levels[Len(levels)]]
    /\ loggerLevel[Root] = ALL
    /\ lastEmit # <<>>
    /\ levels[1] = "none"

\* ------------------------------------------------------------ record factory, formatter
\* Logger names are strings of characters; "s" stands for the package name
\* streamlink, "sp" for streamlink_cli, "." is the separator.
NameChars == {"s", "p", "."}
Names == SeqsUpTo(NameChars, MaxNameLen)
Bases == {<<"s">>, <<"s", "p">>}
WarningsName == <<"w", "a", "r", "n", "i", "n", "g", "s">>

\* The warning categories, each with its base classes (issubclass is reflexive).
Categories == {"UserWarning", "DeprecationWarning", "StreamlinkWarning",
               "StreamlinkDeprecationWarning"}
issubclass(c, base) ==
    \/ c = base
    \/ c = "StreamlinkDeprecationWarning" /\ base \in {"StreamlinkWarning", "UserWarning"}
    \/ c = "StreamlinkWarning" /\ base = "UserWarning"

\* logging.getLevelName(level)
getLevelName(level) ==
    IF level \in DOMAIN levelToName THEN levelToName[level] ELSE "Level"

\* logging.LogRecord(name, level, pathname, lineno, msg, args, exc_info, func, sinfo),
\* the default record factory (filename and module, cut from pathname, left out).
LogRecord(a) ==
    [kind |-> "LogRecord", name |-> a.name, levelno |-> a.level,
     levelname |-> getLevelName(a.level), pathname |-> a.fn, lineno |-> a.lno,
     msg |-> a.msg, args |-> a.args, exc_info |-> a.exc_info,
     funcName |-> a.func, stack_info |-> a.sinfo]

\* WarningLogRecord.__init__
WarningLogRecord(a) ==
    [LogRecord(a) EXCEPT
        !.kind = "WarningLogRecord",
        !.name = WarningsName,
        !.levelname = IF a.msg.category # None THEN a.msg.category ELSE "UserWarning",
        !.pathname = a.msg.filename,
        !.lineno = a.msg.lineno]

\* _log_record_factory
log_record_factory(a) ==
    IF a.msg.type = "WarningMessage"
    THEN WarningLogRecord(a)
    ELSE LogRecord([a EXCEPT !.func = None, !.sinfo = None])

\* getMessage as it would be if it appended the origin for every category.
getMessage_always_origin(r) ==
    IF r.kind = "WarningLogRecord"
    THEN <<r.msg.message, "\n  ", r.pathname, ":", r.lineno>>
    ELSE <<r.msg.text>>

\* LogRecord.getMessage and WarningLogRecord.getMessage: the parts of the text
getMessage(r) ==
    IF r.kind = "WarningLogRecord"
    THEN IF r.msg.category # None /\ issubclass(r.msg.category, "StreamlinkWarning")
         THEN <<r.msg.message>>
         ELSE <<r.msg.message, "\n  ", r.pathname, ":", r.lineno>>
    ELSE <<r.msg.text>>

\* str.replace(old, ""): every occurrence of old, left to right, is removed.
RECURSIVE Replace(_, _)
Replace(str, old) ==
    IF Len(str) < Len(old) THEN str
    ELSE IF SubSeq(str, 1, Len(old)) = old
    THEN Replace(SubSeq(str, Len(old) + 1, Len(str)), old)
    ELSE <<str[1]>> \o Replace(Tail(str), old)

\* The loop of StringFormatter.format over self._remove_base, from entry i on.
RECURSIVE RemoveBases(_, _, _)
RemoveBases(name, bases, i) ==
    IF i > Len(bases) THEN name
    ELSE RemoveBases(Replace(name, bases[i] \o <<".">>), bases, i + 1)

\* str.lower() on the level names a record can carry
Lower(n) ==
    CASE n = "UserWarning" -> "userwarning"
      [] n = "DeprecationWarning" -> "deprecationwarning"
      [] n = "StreamlinkWarning" -> "streamlinkwarning"
      [] n = "StreamlinkDeprecationWarning" -> "streamlinkdeprecationwarning"
      [] n = "Level" -> "level"
      [] OTHER -> n

\* StringFormatter.format: the record as it leaves it
format(r, bases) ==
    [r EXCEPT !.name = RemoveBases(r.name, bases, 1), !.levelname = Lower(r.levelname)]

\* logging.Formatter.format with FORMAT_BASE, "[{name}][{levelname}] {message}"
FormatBase(r) == <<"[", r.name, "][", r.levelname, "] ">> \o getMessage(r)

\* Logger.makeRecord: the record factory is called with the arguments of the call.
MakeRecord ==
    /\ recPc = "call"
    /\ record' = log_record_factory(recArgs)
    /\ recPc' = "made"
    /\ UNCHANGED <<recArgs, remove_base, nameIn, rendered, exceptRec>>

\* Handler.format(record) with a StringFormatter whose remove_base is bases.
Format(bases) ==
    /\ recPc = "made"
    /\ remove_base' = bases
    /\ nameIn' = record.name
    /\ record' = format(record, bases)
    /\ rendered' = FormatBase(format(record, bases))
    /\ recPc' = "formatted"
    /\ UNCHANGED <<recArgs, exceptRec>>

Payloads ==
    {StrMessage("hello")} \cup
    {WarningMessage("obsolete", c, "/lib/origin.py", 7) : c \in Categories \cup {None}}

InitRecord ==
    /\ InitOneBuild
    /\ InitRegistry /\ InitLoggers /\ InitNoBatch
    /\ InitHandlerOn("stderr") /\ InitConfigState
    /\ InitWarnWith("showwarning_std")
    /\ recArgs \in [name : Names, level : {DEBUG, WARNING}, fn : {"/app/cli.py"},
                    lno : {10}, msg : Payloads, args : {<<>>}, exc_info : {None},
                    func : {None, "main"}, sinfo : {None, "Stack (most recent call last)"}]
    /\ record = NoRecord
    /\ recPc = "call"
    /\ remove_base = <<>>
    /\ nameIn = <<>>
    /\ rendered = <<>>

NextRecord ==
    \/ MakeRecord
    \/ \E bases \in SeqsUpTo(Bases, MaxPrefixes) : Format(bases)

SpecRecord == InitRecord /\ [][NextRecord]_vars

StartsWith(str, prefix) ==
    Len(str) >= Len(prefix) /\ SubSeq(str, 1, Len(prefix)) = prefix

\* A prefix and its separator taken off the start of the name, where it is there.
StripStart(name, base) ==
    IF StartsWith(name, base \o <<".">>)
    THEN SubSeq(name, Len(base) + 2, Len(name))
    ELSE name

RECURSIVE StripStarts(_, _, _)
StripStarts(name, bases, i) ==
    IF i > Len(bases) THEN name
    ELSE StripStarts(StripStart(name, bases[i]), bases, i + 1)

\* C6: format takes each configured prefix and its separator off the start of the
\* record's name only; an occurrence elsewhere in the name stays.
C6_StripOnlyAtStart ==
    recPc = "formatted" /\ record.kind # None =>
        record.name = StripStarts(nameIn, remove_base, 1)

\* C8: for a message that is no WarningMessage the factory returns the record of
\* the default construction path for the same arguments, every argument carried
\* through; for a WarningMessage it returns a WarningLogRecord.
C8_FactoryCarriesArgs ==
    recPc = "made" =>
        IF recArgs.msg.type = "WarningMessage"
        THEN record.kind = "WarningLogRecord"
        ELSE /\ record = LogRecord(recArgs)
             /\ record.funcName = recArgs.func
             /\ record.stack_info = recArgs.sinfo

\* ------------------------------------------------------------ stream handler
\* What the flush of the underlying stream can raise, and the exception classes.
FlushFailures == {"BrokenPipeError", "BlockingIOError", "OSError", "ValueError"}
IsOSError(e) == e \in {"OSError", "BrokenPipeError", "BlockingIOError"}

\* StreamHandler.flush when super().flush() raises err (None: it returns): the
\* exception the caller of flush sees, None for a normal return.
flush_brokenpipe_only(err) == IF err = "BrokenPipeError" THEN None ELSE err

flush(err) == IF err # None /\ IsOSError(err) THEN None ELSE err

\* The stream after its flush was called: emptied unless the flush raised.
Flushed(p, stream, err) == IF err = None THEN [p EXCEPT ![stream] = 0] ELSE p

\* stream.write(msg + terminator), the write of logging.StreamHandler.emit
Write ==
    /\ pending[hStream] < MaxPending
    /\ pending' = [pending EXCEPT ![hStream] = @ + 1]
    /\ UNCHANGED <<hStream, streamErrors, flushErr, flushOut, exceptHdl>>

\* handler.flush(), the flush of the stream raising err or returning
Flush(err) ==
    /\ flushErr' = err
    /\ flushOut' = flush(err)
    /\ pending' = Flushed(pending, hStream, err)
    /\ UNCHANGED <<hStream, streamErrors, exceptHdl>>

\* handler.setStream(stream): logging's setStream flushes the old stream through
\* self.flush() and swaps; the new stream is then reconfigured.
SetStream(stream, err) ==
    /\ stream # hStream
    /\ flushErr' = err
    /\ flushOut' = flush(err)
    /\ pending' = Flushed(pending, hStream, err)
    /\ IF flush(err) = None
       THEN /\ hStream' = stream
            /\ streamErrors' = [streamErrors EXCEPT ![stream] = "backslashreplace"]
       ELSE UNCHANGED <<hStream, streamErrors>>
    /\ UNCHANGED exceptHdl

InitHandler ==
    /\ InitOneBuild
    /\ InitRegistry /\ InitLoggers /\ InitNoBatch /\ InitNoRecord /\ InitConfigState
    /\ InitWarnWith("showwarning_std")
    /\ \E stream \in Streams : InitHandlerOn(stream)

NextHandler ==
    \/ Write
    \/ \E err \in FlushFailures \cup {None} : Flush(err)
    \/ \E stream \in Streams, err \in FlushFailures \cup {None} : SetStream(stream, err)

SpecHandler == InitHandler /\ [][NextHandler]_vars

\* C10 as stated: flush suppresses a failure of the underlying flush if and only
\* if it is a broken pipe.
C10_OnlyBrokenPipeSuppressed ==
    flushErr \in FlushFailures => (flushOut = None <=> flushErr = "BrokenPipeError")

\* C10 amended: flush suppresses a failure of the underlying flush if and only if
\* it is an OSError: a broken pipe never propagates, no other OSError propagates
\* either, and an exception that is no OSError propagates unchanged.
C10_EveryOSErrorSuppressed ==
    flushErr \in FlushFailures =>
        /\ flushOut = None <=> IsOSError(flushErr)
        /\ flushErr = "BrokenPipeError" => flushOut = None
        /\ flushOut # None => flushOut = flushErr

\* A flush with writes pending failed with an OSError that is no broken pipe, and
\* flush returned normally.
C10_Witness ==
    /\ flushErr = "OSError"
    /\ flushOut = None
    /\ pending[hStream] > 0

\* ------------------------------------------------------------ basicConfig
\* FORMAT_BASE "[{name}][{levelname}] {message}" and a template with a field no
\* record has, each as the set of the fields it references.
FORMAT_BASE == {"name", "levelname", "message"}
FORMAT_UNKNOWN == {"name", "nofield", "message"}
RecordFields == {"name", "levelname", "levelno", "message", "asctime", "pathname",
                 "filename", "module", "lineno", "funcName", "threadName"}

ConfigArgs ==
    [filename : {None, "log.txt"}, stream : {None} \cup Streams,
     format : {FORMAT_BASE, FORMAT_UNKNOWN}, level : {None, "debug", "bogus"},
     capture_warnings : BOOLEAN]

\* StringFormatter.__init__ renders one synthetic record: it raises when the
\* template references a field the record does not have.
StringFormatter_unvalidated(fmt) == FALSE

StringFormatter_raises(fmt) == ~(fmt \subseteq RecordFields)

\* Lines 219-222: the handler the call creates; a new object, so one that is
\* equal to none of the attached ones (its id is the next free one).
\* Lines 218-222 as they would be if the stream were looked at before the
\* filename.
NewHandler_stream_first(a, hs) ==
    IF a.stream # None
    THEN [id |-> Len(hs) + 1, kind |-> "StreamHandler", target |-> a.stream,
          formatter |-> None]
    ELSE IF a.filename # None
    THEN [id |-> Len(hs) + 1, kind |-> "FileHandler", target |-> a.filename,
          formatter |-> None]
    ELSE NoHandler

NewHandler(a, hs) ==
    IF a.filename # None
    THEN [id |-> Len(hs) + 1, kind |-> "FileHandler", target |-> a.filename,
          formatter |-> None]
    ELSE IF a.stream # None
    THEN [id |-> Len(hs) + 1, kind |-> "StreamHandler", target |-> a.stream,
          formatter |-> None]
    ELSE NoHandler

\* Logger.addHandler: appended unless it is attached already
addHandler_replacing(hs, h) == <<h>>

addHandler(hs, h) ==
    IF \E i \in 1..Len(hs) : hs[i] = h THEN hs ELSE Append(hs, h)

\* A thread calls basicConfig and comes to the with statement.
Call(t) ==
    /\ cfgPc[t] = "idle"
    /\ nCalls < MaxCalls
    /\ nCalls' = nCalls + 1
    /\ cfgPc' = [cfgPc EXCEPT ![t] = "lock"]
    /\ UNCHANGED <<lock, cfgArgs, handler, exc, rootHandlers, pre, nRaised,
                   loggerLevel, showwarning, showwarning_default, exceptCfg>>

\* with _config_lock: the lock is taken; the arguments of the call are a.
Acquire_nolock(t, a) ==
    /\ cfgPc[t] = "lock"
    /\ lock' = t
    /\ cfgArgs' = [cfgArgs EXCEPT ![t] = a]
    /\ handler' = [handler EXCEPT ![t] = NoHandler]
    /\ pre' = [handlers |-> rootHandlers, level |-> loggerLevel[Root],
               active |-> showwarning, remembered |-> showwarning_default]
    /\ cfgPc' = [cfgPc EXCEPT ![t] = "create"]
    /\ UNCHANGED <<exc, rootHandlers, nCalls, nRaised,
                   loggerLevel, showwarning, showwarning_default, exceptCfg>>

Acquire(t, a) ==
    /\ cfgPc[t] = "lock"
    /\ lock = None
    /\ lock' = t
    /\ cfgArgs' = [cfgArgs EXCEPT ![t] = a]
    /\ handler' = [handler EXCEPT ![t] = NoHandler]
    /\ pre' = [handlers |-> rootHandlers, level |-> loggerLevel[Root],
               active |-> showwarning, remembered |-> showwarning_default]
    /\ cfgPc' = [cfgPc EXCEPT ![t] = "create"]
    /\ UNCHANGED <<exc, rootHandlers, nCalls, nRaised,
                   loggerLevel, showwarning, showwarning_default, exceptCfg>>

\* Lines 218-224: the handler is created, or there is none.
CreateHandler(t) ==
    /\ cfgPc[t] = "create"
    /\ handler' = [handler EXCEPT ![t] = NewHandler(cfgArgs[t], rootHandlers)]
    /\ cfgPc' = [cfgPc EXCEPT ![t] =
                    IF NewHandler(cfgArgs[t], rootHandlers) # NoHandler
                    THEN "formatter" ELSE "level"]
    /\ UNCHANGED <<lock, cfgArgs, exc, rootHandlers, pre, nCalls, nRaised,
                   loggerLevel, showwarning, showwarning_default, exceptCfg>>

\* Lines 225-231: the formatter is made and set on the handler, or it raises.
MakeFormatter(t) ==
    /\ cfgPc[t] = "formatter"
    /\ IF StringFormatter_raises(cfgArgs[t].format)
       THEN /\ exc' = [exc EXCEPT ![t] = "ValueError: Formatting field not found"]
            /\ cfgPc' = [cfgPc EXCEPT ![t] = "unwind"]
            /\ UNCHANGED handler
       ELSE /\ handler' = [handler EXCEPT ![t].formatter = cfgArgs[t].format]
            /\ cfgPc' = [cfgPc EXCEPT ![t] = "attach"]
            /\ UNCHANGED exc
    /\ UNCHANGED <<lock, cfgArgs, rootHandlers, pre, nCalls, nRaised,
                   loggerLevel, showwarning, showwarning_default, exceptCfg>>

\* Line 233: root.addHandler(handler)
AddHandler(t) ==
    /\ cfgPc[t] = "attach"
    /\ rootHandlers' = addHandler(rootHandlers, handler[t])
    /\ cfgPc' = [cfgPc EXCEPT ![t] = "level"]
    /\ UNCHANGED <<lock, cfgArgs, handler, exc, pre, nCalls, nRaised,
                   loggerLevel, showwarning, showwarning_default, exceptCfg>>

\* Lines 235-236: root.setLevel(level), which raises for a name not registered
SetRootLevel(t) ==
    /\ cfgPc[t] = "level"
    /\ IF cfgArgs[t].level = None
       THEN /\ cfgPc' = [cfgPc EXCEPT ![t] = "capture"]
            /\ UNCHANGED <<exc, loggerLevel>>
       ELSE IF cfgArgs[t].level \in DOMAIN nameToLevel
       THEN /\ loggerLevel' = [loggerLevel EXCEPT ![Root] = nameToLevel[cfgArgs[t].level]]
            /\ cfgPc' = [cfgPc EXCEPT ![t] = "capture"]
            /\ UNCHANGED exc
       ELSE /\ exc' = [exc EXCEPT ![t] = "ValueError: Unknown level"]
            /\ cfgPc' = [cfgPc EXCEPT ![t] = "unwind"]
            /\ UNCHANGED loggerLevel
    /\ UNCHANGED <<lock, cfgArgs, handler, rootHandlers, pre, nCalls, nRaised,
                   showwarning, showwarning_default, exceptCfg>>

\* Lines 238-239: capturewarnings(True) when capture_warnings is set
Capture(t) ==
    /\ cfgPc[t] = "capture"
    /\ LET w == IF cfgArgs[t].capture_warnings
                THEN capturewarnings(WarnState, TRUE) ELSE WarnState
       IN /\ showwarning' = w.active
          /\ showwarning_default' = w.remembered
    /\ cfgPc' = [cfgPc EXCEPT ![t] = "exit"]
    /\ UNCHANGED <<lock, cfgArgs, handler, exc, rootHandlers, pre, nCalls, nRaised,
                   loggerLevel, exceptCfg>>

\* The with statement is left, the lock released: the call returns handler
\* (line 241), or the exception goes on to the caller.
Release(t) ==
    /\ cfgPc[t] \in {"exit", "unwind"}
    /\ lock = t
    /\ lock' = None
    /\ nRaised' = IF cfgPc[t] = "unwind" THEN nRaised + 1 ELSE nRaised
    /\ cfgPc' = [cfgPc EXCEPT ![t] = "idle"]
    /\ cfgArgs' = [cfgArgs EXCEPT ![t] = NoArgs]
    /\ handler' = [handler EXCEPT ![t] = NoHandler]
    /\ exc' = [exc EXCEPT ![t] = None]
    /\ pre' = NoSnapshot
    /\ UNCHANGED <<rootHandlers, nCalls,
                   loggerLevel, showwarning, showwarning_default, exceptCfg>>

InitConfig ==
    /\ InitOneBuild
    /\ InitRegistry /\ InitLoggers /\ InitNoBatch /\ InitNoRecord
    /\ InitHandlerOn("stderr") /\ InitConfigState
    /\ InitWarnWith("showwarning_std")

NextConfig ==
    \E t \in Threads :
        \/ Call(t)
        \/ \E a \in ConfigArgs : Acquire(t, a)
        \/ CreateHandler(t)
        \/ MakeFormatter(t)
        \/ AddHandler(t)
        \/ SetRootLevel(t)
        \/ Capture(t)
        \/ Release(t)

SpecConfig == InitConfig /\ [][NextConfig]_vars

HasTarget(a) == a.filename # None \/ a.stream # None

\* C1 as stated: a call that supplied a target and is about to return leaves
\* exactly one handler on root, its own (no earlier call having raised).
C1_SingleHandler ==
    \A t \in Threads :
        (lock = t /\ cfgPc[t] = "exit" /\ handler[t] # NoHandler /\ nRaised = 0)
            => rootHandlers = <<handler[t]>>

\* C1 amended: a call that supplies a target attaches exactly one new handler
\* behind those attached when it took the lock and removes none, so the handlers
\* of all such calls stay attached, in the order the calls took the lock.
C1_OneMoreHandlerPerCall ==
    /\ \A i, j \in 1..Len(rootHandlers) : i # j => rootHandlers[i] # rootHandlers[j]
    /\ Len(rootHandlers) <= nCalls
    /\ \A t \in Threads :
          lock = t =>
              /\ cfgPc[t] \in {"create", "formatter", "attach"}
                    => rootHandlers = pre.handlers
              /\ (cfgPc[t] \in {"level", "capture", "exit"} /\ handler[t] # NoHandler)
                    => /\ rootHandlers = Append(pre.handlers, handler[t])
                       /\ \A i \in 1..Len(pre.handlers) : pre.handlers[i] # handler[t]
              /\ (cfgPc[t] \in {"level", "capture", "exit"} /\ handler[t] = NoHandler)
                    => rootHandlers = pre.handlers

\* The second of two calls with different streams is about to return while the
\* other thread waits for the lock: both handlers are attached, its own last.
C1_Witness ==
    \E t, u \in Threads :
        /\ t # u /\ lock = t /\ cfgPc[t] = "exit" /\ cfgPc[u] = "lock"
        /\ Len(rootHandlers) = 2
        /\ rootHandlers[2] = handler[t]
        /\ rootHandlers[1].kind = "StreamHandler"
        /\ rootHandlers[2].kind = "StreamHandler"
        /\ rootHandlers[1].target # rootHandlers[2].target
        /\ nRaised = 0

\* C7 as stated: a call given a template with an unknown field never comes to
\* return normally, whatever its target.
C7_AlwaysFails ==
    \A t \in Threads :
        (lock = t /\ StringFormatter_raises(cfgArgs[t].format)) => cfgPc[t] # "exit"

\* C7 amended: a call given a template with an unknown field and a file or stream
\* target gets no further than the making of the formatter, which raises to the
\* caller; a call with no target makes no formatter and is not failed by the
\* template.
C7_FailsWithTarget ==
    \A t \in Threads :
        (lock = t /\ FORMAT_UNKNOWN = cfgArgs[t].format) =>
            IF HasTarget(cfgArgs[t])
            THEN /\ cfgPc[t] \in {"create", "formatter", "unwind"}
                 /\ cfgPc[t] = "unwind" => exc[t] = "ValueError: Formatting field not found"
                 /\ rootHandlers = pre.handlers
            ELSE /\ cfgPc[t] \notin {"formatter", "attach"}
                 /\ exc[t] # "ValueError: Formatting field not found"

\* A call with a file target and an unknown field is raising the formatter's error.
C7_Witness ==
    \E t \in Threads :
        /\ lock = t /\ cfgPc[t] = "unwind"
        /\ exc[t] = "ValueError: Formatting field not found"
        /\ cfgArgs[t].filename # None
        /\ cfgArgs[t].format = FORMAT_UNKNOWN

\* Where a call stands while it holds the lock.
InLock == {"create", "formatter", "attach", "level", "capture", "exit", "unwind"}

\* C11: two concurrent basicConfig calls serialize: only the thread holding the
\* lock is inside the with block, and from the moment it took the lock root's
\* handlers, level and warning hooks show its own changes only; between its
\* attaching its handler and its setting the level no handler of another call
\* is attached.
C11_Serialized ==
    \A t \in Threads :
        /\ cfgPc[t] \in InLock <=> lock = t
        /\ lock = t =>
              /\ rootHandlers \in {pre.handlers, Append(pre.handlers, handler[t])}
              /\ cfgPc[t] \in {"create", "formatter", "attach", "level"}
                    => loggerLevel[Root] = pre.level
              /\ cfgPc[t] \in {"create", "formatter", "attach", "level", "capture"}
                    => /\ showwarning = pre.active
                       /\ showwarning_default = pre.remembered
              /\ cfgPc[t] = "level" /\ handler[t] # NoHandler
                    => rootHandlers = Append(pre.handlers, handler[t])

\* One call stands between attaching its handler and setting the level while
\* the other thread's call waits for the lock, an earlier call having finished.
C11_Witness ==
    \E t, u \in Threads :
        /\ t # u /\ lock = t /\ cfgPc[t] = "level" /\ cfgPc[u] = "lock"
        /\ handler[t] # NoHandler
        /\ cfgArgs[t].level = "debug"
        /\ Len(rootHandlers) = 2

\* C12: every resumption of a batch whose one check found the logger enabled
\* takes the next item of the input, hands exactly one record carrying it to the
\* logger and then yields it: records and yielded items are both the consumed
\* prefix of the input, in input order, no item is pulled before the one in
\* front of it has been yielded, and at the end of the input nothing more is
\* logged or yielded.
C12_StreamInOrder ==
    [][(genEnabled' = "yes" /\ (genPc' # genPc \/ cursor' # cursor)) =>
          LET k == Len(yielded)
          IN /\ genLogged = yielded
             /\ yielded = SubSeq(messages, 1, k)
             /\ cursor = k
             /\ IF k < Len(messages)
                THEN /\ genPc' = "loop"
                     /\ cursor' = k + 1
                     /\ genLogged' = Append(genLogged, messages[k + 1])
                     /\ yielded' = Append(yielded, messages[k + 1])
                     /\ lastEmit' = <<LogRecordOf(genLogger, genLevel, messages[k + 1])>>
                ELSE /\ genPc' = "done"
                     /\ cursor' = k
                     /\ genLogged' = genLogged
                     /\ yielded' = yielded
                     /\ lastEmit' = <<>>]_vars

\* A batch of two different items on an enabled logger has been consumed to its
\* end.
C12_Witness ==
    /\ genEnabled = "yes" /\ genPc = "done"
    /\ Len(messages) = 2 /\ messages[1] # messages[2]
    /\ yielded = messages /\ genLogged = messages

\* ------------------------------------------------------------ the warning hook
\* The arguments warnings hands to its hook: showwarning(message, category,
\* filename, lineno, file, line).
WarnArgs ==
    [message : {"obsolete"}, category : {None, "UserWarning", "StreamlinkWarning"},
     filename : {"/lib/origin.py"}, lineno : {7}, file : {None, "stream"},
     line : {None}]

\* _showwarning as it would be if it logged whether or not a file was given.
_showwarning_always_log(default, a) ==
    [hook |-> <<>>,
     log |-> <<[level |-> WARNING,
                msg |-> WarningMessage(a.message, a.category, a.filename, a.lineno)]>>]

\* _showwarning(message, category, filename, lineno, file, line) with
\* _showwarning_default = default: the calls it makes on the remembered hook and
\* on root.log.
_showwarning(default, a) ==
    IF a.file # None
    THEN [hook |-> IF default # None THEN <<[hook |-> default, args |-> a]>> ELSE <<>>,
          log |-> <<>>]
    ELSE [hook |-> <<>>,
          log |-> <<[level |-> WARNING,
                     msg |-> WarningMessage(a.message, a.category, a.filename,
                                            a.lineno)]>>]

\* Logger.log(level, msg) on lg, called from pathname fn, line lno: the records
\* the record factory makes for it.
Logger_log(lv, lg, c, fn, lno) ==
    IF isEnabledFor(lv, lg, c.level)
    THEN <<log_record_factory([name |-> lg, level |-> c.level, fn |-> fn, lno |-> lno,
                               msg |-> c.msg, args |-> <<>>, exc_info |-> None,
                               func |-> None, sinfo |-> None])>>
    ELSE <<>>

\* The path and line of the code that called the hook (warnings.py).
HookCaller == [fn |-> "/usr/lib/python3/warnings.py", lno |-> 112]

\* The warnings module reports a warning: it calls warnings.showwarning, the
\* active hook, which is the bridge's _showwarning or an external hook.
ShowWarning(a) ==
    /\ LET r == IF showwarning = BridgeHook
                THEN _showwarning(showwarning_default, a)
                ELSE [hook |-> <<[hook |-> showwarning, args |-> a]>>, log |-> <<>>]
           recs == IF r.log = <<>> THEN <<>>
                   ELSE Logger_log(loggerLevel, Root, r.log[1],
                                   HookCaller.fn, HookCaller.lno)
       IN /\ warnArgs' = a
          /\ hookCalls' = r.hook
          /\ logCalls' = r.log
          /\ warnRecords' = recs
          /\ lastEmit' = recs
    /\ UNCHANGED <<warnVars, extHook, extHookOff, loggerLevel, genVars,
                   regVars, recVars, hdlVars, cfgVars, traceVars, raceVars>>

\* External code installs its own hook: warnings.showwarning = h.
InstallHook(h) ==
    /\ showwarning' = h
    /\ extHook' = h
    /\ extHookOff' = IF showwarning_default = None THEN h ELSE extHookOff
    /\ UNCHANGED <<showwarning_default, origHook, callLog, warnArgs, hookCalls,
                   logCalls, warnRecords, regVars, logVars, recVars, hdlVars, cfgVars,
                   traceVars, raceVars>>

BridgeLevelArgs == {"warning", "error"}

InitBridge == InitWarn

NextBridge ==
    \/ \E capture \in BOOLEAN : CaptureWarnings(capture)
    \/ \E h \in ExternalHooks : InstallHook(h)
    \/ \E n \in BridgeLevelArgs : SetLevel(Root, n)
    \/ \E a \in WarnArgs : ShowWarning(a)

SpecBridge == InitBridge /\ [][NextBridge]_vars

\* C13: a warning that reaches the bridge's hook while capture is enabled is
\* handled in exactly one of two ways: with a file, one call of the remembered
\* hook with the same arguments and no log call nor record; without a file, no
\* call of the remembered hook and one root.log call at WARNING carrying message,
\* category, filename and lineno, which makes one record named "warnings" of the
\* warning's origin when root is enabled for WARNING and none otherwise.
C13_OneOfTwoWays ==
    [][(showwarning = BridgeHook /\ showwarning_default # None
           /\ <<warnArgs, hookCalls, logCalls, warnRecords>>'
                 # <<warnArgs, hookCalls, logCalls, warnRecords>>) =>
          LET a == warnArgs'
          IN IF a.file # None
             THEN /\ hookCalls' = <<[hook |-> showwarning_default, args |-> a]>>
                  /\ logCalls' = <<>>
                  /\ warnRecords' = <<>>
             ELSE /\ hookCalls' = <<>>
                  /\ Len(logCalls') = 1
                  /\ logCalls'[1].level = WARNING
                  /\ logCalls'[1].msg
                        = WarningMessage(a.message, a.category, a.filename, a.lineno)
                  /\ IF isEnabledFor(loggerLevel, Root, WARNING)
                     THEN /\ Len(warnRecords') = 1
                          /\ warnRecords'[1].name = WarningsName
                          /\ warnRecords'[1].levelno = WARNING
                          /\ warnRecords'[1].msg = logCalls'[1].msg
                          /\ warnRecords'[1].pathname = a.filename
                          /\ warnRecords'[1].lineno = a.lineno
                     ELSE warnRecords' = <<>>]_vars

\* With capture enabled, the latest warning came with a file and went to the
\* remembered hook, an external one.
C13_Witness ==
    /\ showwarning = BridgeHook /\ showwarning_default = "hook_a"
    /\ Len(hookCalls) = 1 /\ hookCalls[1].hook = "hook_a"
    /\ hookCalls[1].args.file = "stream"
    /\ logCalls = <<>>

\* C17 as stated: whenever capture is disabled, the active hook is the one
\* external code installed most recently, before or during capture.
C17_LatestExternalSurvives ==
    showwarning_default = None => showwarning = extHook

\* C17 amended: the hook that external code installed most recently while
\* capture was not enabled is the one remembered during capture and the active
\* one whenever capture is disabled; a hook installed while capture is enabled
\* is active only until the disable, which puts the remembered hook over it.
C17_HookBeforeEnableSurvives ==
    IF showwarning_default = None
    THEN showwarning = extHookOff
    ELSE /\ showwarning_default = extHookOff
         /\ showwarning \in {BridgeHook, extHook}

\* External code installed hook_a, capture was enabled, external code installed
\* hook_b, and capture has been disabled: hook_a is active.
C17_Witness ==
    /\ callLog = <<TRUE, FALSE>>
    /\ origHook = "showwarning_std"
    /\ extHookOff = "hook_a" /\ extHook = "hook_b"
    /\ showwarning = "hook_a" /\ showwarning_default = None

\* The categories that are StreamlinkWarning or a subclass of it.
InternalCategories == {"StreamlinkWarning", "StreamlinkDeprecationWarning"}

\* What follows "[name][levelname] " in the rendered line.
MessagePart(line) == SubSeq(line, 6, Len(line))

\* C14: a formatted WarningLogRecord of category StreamlinkWarning or a subclass
\* renders as the warning text alone; one of any other category, or of no
\* category, renders as the warning text, a line break and indent, and the path
\* and line number of the warning's origin, which are not those of the logging
\* call.
C14_WarningRendering ==
    (recPc = "formatted" /\ record.kind = "WarningLogRecord") =>
        LET w == recArgs.msg
        IN IF w.category \in InternalCategories
           THEN MessagePart(rendered) = <<w.message>>
           ELSE /\ MessagePart(rendered)
                      = <<w.message, "\n  ", w.filename, ":", w.lineno>>
                /\ <<w.filename, w.lineno>> # <<recArgs.fn, recArgs.lno>>

\* A warning without category has been rendered, with its origin.
C14_Witness ==
    /\ recPc = "formatted" /\ record.kind = "WarningLogRecord"
    /\ recArgs.msg.category = None
    /\ MessagePart(rendered) = <<"obsolete", "\n  ", "/lib/origin.py", ":", 7>>
    /\ remove_base # <<>>

\* ------------------------------------------------------------ the methods of
\* _logmethodfactory and the source location of their records
\* The frames of a call, innermost first: Logger.findCaller, Logger._log, the
\* method made by _logmethodfactory, its caller, and the callers of that.
LoggingFile == "logging/__init__.py"
Frame(file, func) == [file |-> file, func |-> func]
\* The i-th frame of the application, counted from the caller of the method.
UserFrame(i) == Frame("app.py", i)
MaxDepth == 3
CallStack(name, depth) ==
    <<Frame(LoggingFile, "findCaller"), Frame(LoggingFile, "_log"),
      Frame("logger.py", name)>> \o [i \in 1..depth |-> UserFrame(i)]

\* The keyword arguments of a call: none, or a stacklevel.
NoKws == [k \in {} |-> 0]
MaxStacklevel == 3
CallerKws == {NoKws} \cup {[k \in {"stacklevel"} |-> n] : n \in 1..MaxStacklevel}

\* version_info >= (major, minor)
VersionAtLeast(v, w) == v[1] > w[1] \/ (v[1] = w[1] /\ v[2] >= w[2])

\* The keyword arguments the method hands to _log, as it would be if the method
\* of either build passed them on untouched.
method_kws_untouched(v, kws) == kws

\* The keyword arguments the method made by _logmethodfactory hands to _log.
method_kws(v, kws) ==
    IF VersionAtLeast(v, <<3, 11>>)
    THEN [k \in DOMAIN kws \cup {"stacklevel"} |->
             IF k = "stacklevel" THEN 2 ELSE kws[k]]
    ELSE kws

\* logging._is_internal_frame
is_internal_frame(f) == f.file = LoggingFile

\* Logger.findCaller from 3.11 on: from its own frame it goes up stacklevel
\* frames that are not internal to logging. i is the frame it stands on.
RECURSIVE findCaller_311(_, _, _)
findCaller_311(stack, i, stacklevel) ==
    IF stacklevel <= 0 \/ i + 1 > Len(stack) THEN i
    ELSE findCaller_311(stack, i + 1,
                        IF is_internal_frame(stack[i + 1]) THEN stacklevel
                        ELSE stacklevel - 1)

\* The frames of logging's own file passed over, from frame i up.
RECURSIVE SkipLogging(_, _)
SkipLogging(stack, i) ==
    IF i <= Len(stack) /\ is_internal_frame(stack[i]) THEN SkipLogging(stack, i + 1)
    ELSE i

\* Logger.findCaller before 3.11: from the caller of the frame that called _log it
\* goes up stacklevel - 1 frames (staying where it started if the stack ends),
\* then passes over frames of logging's own file.
findCaller_310(stack, stacklevel) ==
    LET orig == 4
        up == orig + (IF stacklevel > 1 THEN stacklevel - 1 ELSE 0)
    IN SkipLogging(stack, IF up > Len(stack) THEN orig ELSE up)

\* Logger._log(level, msg, args, **kws): the frame findCaller reports.
findCaller(v, stack, kws) ==
    LET stacklevel == IF "stacklevel" \in DOMAIN kws THEN kws["stacklevel"] ELSE 1
    IN IF VersionAtLeast(v, <<3, 11>>)
       THEN stack[findCaller_311(stack, 1, stacklevel)]
       ELSE stack[findCaller_310(stack, stacklevel)]

\* logger.trace(message, **kws) or logger.all(message, **kws), called from a
\* stack of depth user frames.
TraceMethod(lg, level, kws, depth) ==
    /\ level \in custom_levels
    /\ LET stack == CallStack(levelToName[level], depth)
           recs == IF isEnabledFor(loggerLevel, lg, level)
                   THEN <<[name |-> lg, levelno |-> level, msg |-> "m",
                           frame |-> findCaller(version_info, stack,
                                                method_kws(version_info, kws))]>>
                   ELSE <<>>
       IN /\ traceCall' = [logger |-> lg, level |-> level, kws |-> kws, stack |-> stack]
          /\ traceRecords' = recs
          /\ lastEmit' = recs
    /\ UNCHANGED <<version_info, loggerLevel, genVars, regVars, warnVars, recVars,
                   hdlVars, cfgVars, bridgeVars, raceVars>>

TraceLevelArgs == {"all", "trace", "debug"}

InitTrace ==
    /\ version_info \in PyVersions
    /\ InitRegistry /\ InitLoggers /\ InitNoBatch /\ InitNoRecord
    /\ InitHandlerOn("stderr") /\ InitConfigState
    /\ InitWarnWith("showwarning_std")

NextTrace ==
    \/ \E lg \in Loggers, n \in TraceLevelArgs : SetLevel(lg, n)
    \/ \E lg \in Loggers, level \in custom_levels, kws \in CallerKws,
          depth \in 1..MaxDepth : TraceMethod(lg, level, kws, depth)

SpecTrace == InitTrace /\ [][NextTrace]_vars

\* The latest step was a call of a method made by _logmethodfactory.
MethodCalled == <<traceCall, traceRecords>>' # <<traceCall, traceRecords>>

\* The stacklevel the caller passed, 1 if it passed none.
PassedStacklevel(c) == IF "stacklevel" \in DOMAIN c.kws THEN c.kws["stacklevel"] ELSE 1

\* C15 as stated: on an enabled logger the call makes exactly one record at the
\* method's level whose location is the frame of the method's caller, whatever
\* stacklevel the caller passed; on a logger that is not enabled it makes none.
C15_CallerFrameAlways ==
    [][MethodCalled =>
          LET c == traceCall'
          IN IF isEnabledFor(loggerLevel, c.logger, c.level)
             THEN /\ Len(traceRecords') = 1
                  /\ traceRecords'[1].levelno = c.level
                  /\ traceRecords'[1].frame = UserFrame(1)
             ELSE traceRecords' = <<>>]_vars

\* C15 amended: on an enabled logger the call makes exactly one record at the
\* method's level, located in the application and never in the method or in
\* logging: at the frame of the method's caller on a build from 3.11 on,
\* whatever stacklevel the caller passed, and on an older build at the frame
\* stacklevel - 1 above the caller (the caller when that is beyond the stack or
\* no stacklevel was passed); on a logger that is not enabled it makes none.
C15_CallerFramePerBuild ==
    [][MethodCalled =>
          LET c == traceCall'
              depth == Len(c.stack) - 3
              up == PassedStacklevel(c)
          IN IF isEnabledFor(loggerLevel, c.logger, c.level)
             THEN /\ Len(traceRecords') = 1
                  /\ traceRecords'[1].levelno = c.level
                  /\ traceRecords'[1].frame.file = "app.py"
                  /\ traceRecords'[1].frame =
                        IF VersionAtLeast(version_info, <<3, 11>>) \/ up > depth
                        THEN UserFrame(1)
                        ELSE UserFrame(up)
             ELSE traceRecords' = <<>>]_vars

\* On a build before 3.11, trace was called with stacklevel 2 on an enabled
\* logger: the record is located at the caller of the caller.
C15_Witness ==
    /\ ~VersionAtLeast(version_info, <<3, 11>>)
    /\ traceCall.level = TRACE
    /\ PassedStacklevel(traceCall) = 2
    /\ Len(traceRecords) = 1
    /\ traceRecords[1].frame = UserFrame(2)

\* ------------------------------------------------------------ capturewarnings
\* called by two threads at once. No lock is taken in capturewarnings: a thread
\* can be switched between any two of its reads and writes of the two hooks.
\* capturewarnings(True) is called by thread t.
EnableCall(t) ==
    /\ cwPc[t] = "idle"
    /\ Len(callLog) < MaxWarnCalls
    /\ callLog' = Append(callLog, TRUE)
    /\ cwPc' = [cwPc EXCEPT ![t] = "test"]
    /\ UNCHANGED <<showwarning, showwarning_default, origHook, cwTmp, exceptRace>>

\* if _showwarning_default is None:
EnableTest(t) ==
    /\ cwPc[t] = "test"
    /\ cwPc' = [cwPc EXCEPT ![t] = IF showwarning_default = None THEN "read" ELSE "idle"]
    /\ UNCHANGED <<warnVars, cwTmp, exceptRace>>

\* the right-hand side of _showwarning_default = warnings.showwarning
EnableRead(t) ==
    /\ cwPc[t] = "read"
    /\ cwTmp' = [cwTmp EXCEPT ![t] = showwarning]
    /\ cwPc' = [cwPc EXCEPT ![t] = "remember"]
    /\ UNCHANGED <<warnVars, exceptRace>>

\* the assignment to _showwarning_default
EnableRemember(t) ==
    /\ cwPc[t] = "remember"
    /\ showwarning_default' = cwTmp[t]
    /\ cwTmp' = [cwTmp EXCEPT ![t] = None]
    /\ cwPc' = [cwPc EXCEPT ![t] = "install"]
    /\ UNCHANGED <<showwarning, origHook, callLog, exceptRace>>

\* warnings.showwarning = _showwarning
EnableInstall(t) ==
    /\ cwPc[t] = "install"
    /\ showwarning' = BridgeHook
    /\ cwPc' = [cwPc EXCEPT ![t] = "idle"]
    /\ UNCHANGED <<showwarning_default, origHook, callLog, cwTmp, exceptRace>>

\* capturewarnings(False), called while no other call is under way.
DisableAlone ==
    /\ \A t \in Threads : cwPc[t] = "idle"
    /\ CaptureWarnings(FALSE)

InitRace == InitWarn

NextRace ==
    \/ \E t \in Threads :
          \/ EnableCall(t)
          \/ EnableTest(t)
          \/ EnableRead(t)
          \/ EnableRemember(t)
          \/ EnableInstall(t)
    \/ DisableAlone

SpecRace == InitRace /\ [][NextRace]_vars

\* C16: with capturewarnings(True) called by two threads at once, the remembered
\* hook is never the bridge's own hook, and once every enable has returned, a
\* single disable makes the hook that was active before the first enable active
\* again.
C16_OriginalNeverLost ==
    /\ showwarning_default # BridgeHook
    /\ (/\ \A t \in Threads : cwPc[t] = "idle"
        /\ callLog # <<>> /\ ~callLog[Len(callLog)])
          => showwarning = origHook

\* ------------------------------------------------------------ further properties
\* of iter and of basicConfig
\* C18: the one check of a batch decides for all of its items, whatever happens
\* to the level of the logger afterwards: a batch found enabled has logged every
\* item it has yielded, a batch found not enabled has logged nothing, and what
\* is yielded is the consumed part of the input, each item once.
C18_DecidedOnce ==
    /\ genEnabled = "yes" => genLogged = yielded
    /\ genEnabled = "no" => genLogged = <<>>
    /\ genEnabled # None => yielded = SubSeq(messages, 1, Len(yielded))

\* C19: a basicConfig call that raises leaves root's handlers, root's level and
\* the two warning hooks as they were when the call took the lock.
C19_AllOrNothing ==
    \A t \in Threads :
        cfgPc[t] = "unwind" =>
            /\ exc[t] # None
            /\ rootHandlers = pre.handlers
            /\ loggerLevel[Root] = pre.level
            /\ showwarning = pre.active
            /\ showwarning_default = pre.remembered

\* C20: a basicConfig call about to return has changed what its arguments ask
\* for and nothing else: without filename and stream it returns None and root's
\* handlers are as before; with a target it returns the one handler it attached
\* behind those that were there, a FileHandler whenever a filename was given;
\* without level root's level is as before; without capture_warnings the two
\* warning hooks are as before, capture staying enabled if it was.
C20_OnlyWhatIsAsked ==
    \A t \in Threads :
        cfgPc[t] = "exit" =>
            LET a == cfgArgs[t]
            IN /\ exc[t] = None
               /\ IF a.filename = None /\ a.stream = None
                  THEN handler[t] = NoHandler /\ rootHandlers = pre.handlers
                  ELSE /\ handler[t] # NoHandler
                       /\ rootHandlers = Append(pre.handlers, handler[t])
                       /\ handler[t].kind =
                             IF a.filename # None THEN "FileHandler" ELSE "StreamHandler"
                       /\ handler[t].target =
                             IF a.filename # None THEN a.filename ELSE a.stream
               /\ a.level = None => loggerLevel[Root] = pre.level
               /\ a.level # None => loggerLevel[Root] = nameToLevel[a.level]
               /\ ~a.capture_warnings =>
                     /\ showwarning = pre.active
                     /\ showwarning_default = pre.remembered
               /\ a.capture_warnings =>
                     /\ showwarning = BridgeHook
                     /\ showwarning_default # None

\* A call given both a filename and a stream, no level and capture_warnings
\* false is about to return its FileHandler, capture having been enabled by an
\* earlier call.
C20_Witness ==
    \E t \in Threads :
        /\ cfgPc[t] = "exit"
        /\ cfgArgs[t].filename # None /\ cfgArgs[t].stream # None
        /\ cfgArgs[t].level = None /\ ~cfgArgs[t].capture_warnings
        /\ handler[t].kind = "FileHandler"
        /\ pre.remembered # None /\ showwarning = BridgeHook
        /\ loggerLevel[Root] = DEBUG

====
